---- MODULE Spec2Model ----
(***************************************************************************)
(* A model of nvidia-signing-script.py: the script detects the package     *)
(* manager, reads the running kernel, lists the installed kernels, keeps   *)
(* the ones newer than the running kernel and signs four Nvidia modules    *)
(* for each of them with the kernel tree's sign-file binary.  The model     *)
(* covers the runs whose command line holds the two key files.             *)
(*                                                                         *)
(* Text is a sequence of one-character strings, so that the regular        *)
(* expression, the string methods and the version parser are computed      *)
(* character by character as the code computes them.                       *)
(***************************************************************************)
EXTENDS Integers, Sequences, FiniteSets, TLC

VARIABLES
    pc,               \* the position of main () (or of the function applied)
    exitStatus,       \* the process exit status, NotExited while it runs
    failure,          \* what ended the run: "none" or the kind of failure
    packageManager,   \* main's packageManager
    currentKernel,    \* main's currentKernel
    installedKernels, \* main's installedKernels
    newKernels,       \* main's newKernels
    kernelIdx,        \* signNewKernels' position in newKernels
    moduleIdx,        \* signKernel's position in MODULE_NAMES
    log,              \* every external command run so far, in order
    lastProc,         \* the outcome of the last process run for its output
    lastResult,       \* what executeCommandWithOutput made of lastProc
    line,             \* extractKernelVersionString's argument
    versionString,    \* extractKernelVersionString's result
    kernel1,          \* compareKernels' arguments (three, for transitivity)
    kernel2,
    kernel3,
    cmp               \* the results of compareKernels on them

vars == <<pc, exitStatus, failure, packageManager, currentKernel,
          installedKernels, newKernels, kernelIdx, moduleIdx, log, lastProc,
          lastResult, line, versionString, kernel1, kernel2, kernel3, cmp>>

mainVars == <<exitStatus, failure, packageManager, currentKernel,
              installedKernels, newKernels, kernelIdx, moduleIdx, log,
              lastProc, lastResult>>

extractVars == <<line, versionString>>

compareVars == <<kernel1, kernel2, kernel3, cmp>>

(***************************************************************************)
(* Bounds of the model.                                                    *)
(***************************************************************************)
\* The longest line, over LineChars, the extraction is applied to.
MaxLineLen == 4

\* The longest line, over TokenChars, the compared tokens are extracted from.
MaxTokenLineLen == 3

\* The most lines a package listing holds.
MaxListingLines == 2

\* The most installed kernels getNewKernels is applied to.
MaxInstalled == 3

(***************************************************************************)
(* Characters and strings.                                                 *)
(***************************************************************************)
DigitChars == <<"0", "1", "2", "3", "4", "5", "6", "7", "8", "9">>

LowerChars == <<"a", "b", "c", "d", "e", "f", "g", "h", "i", "j", "k", "l", "m",
                "n", "o", "p", "q", "r", "s", "t", "u", "v", "w", "x", "y", "z">>

UpperChars == <<"A", "B", "C", "D", "E", "F", "G", "H", "I", "J", "K", "L", "M",
                "N", "O", "P", "Q", "R", "S", "T", "U", "V", "W", "X", "Y", "Z">>

Range(s) == {s[i] : i \in DOMAIN s}

\* str.isdigit () of one character
IsDigit(c) == c \in Range(DigitChars)

\* str.isalpha () of one character
IsAlpha(c) == c \in Range(LowerChars) \cup Range(UpperChars)

\* str.isspace () of one character: what rstrip () removes
IsSpace(c) == c \in {" ", "\n", "\t", "\r"}

\* One repetition of the group (\d+|\.|\-|[a-z]|[A-Z]) consumes characters of
\* this class only.
InGroupClass(c) ==
    \/ IsDigit(c)
    \/ c = "."
    \/ c = "-"
    \/ c \in Range(LowerChars)
    \/ c \in Range(UpperChars)

Max(S) == CHOOSE x \in S : \A y \in S : y <= x

Min(S) == CHOOSE x \in S : \A y \in S : x <= y

\* s [i:j] of Python with 1-based inclusive ends
Slice(s, i, j) == SubSeq(s, i, j)

(***************************************************************************)
(* re.search ('\d+(\d+|\.|\-|[a-z]|[A-Z])+', line)                          *)
(***************************************************************************)
RECURSIVE DigitRun(_, _)
\* How many characters a greedy \d+ can take from position i.
DigitRun(s, i) ==
    IF i <= Len(s) /\ IsDigit(s[i]) THEN 1 + DigitRun(s, i + 1) ELSE 0

RECURSIVE GroupRun(_, _)
\* How many characters the greedy group repetition takes from position i.
GroupRun(s, i) ==
    IF i <= Len(s) /\ InGroupClass(s[i]) THEN 1 + GroupRun(s, i + 1) ELSE 0

\* The match anchored at position i: \d+ takes as many digits as it can and
\* gives back one at a time until the group can repeat at least once.
MatchAt(s, i) ==
    LET d == DigitRun(s, i)
        ks == {k \in 1..d : GroupRun(s, i + k) >= 1}
    IN  IF ks = {}
        THEN [found |-> FALSE, first |-> 0, last |-> 0]
        ELSE LET k == Max(ks)
             IN  [found |-> TRUE, first |-> i,
                  last |-> i + k + GroupRun(s, i + k) - 1]

\* re.search: the match at the leftmost position that has one.
reSearch(s) ==
    LET starts == {i \in 1..Len(s) : MatchAt(s, i).found}
    IN  IF starts = {}
        THEN [found |-> FALSE, group |-> <<>>]
        ELSE LET m == MatchAt(s, Min(starts))
             IN  [found |-> TRUE, group |-> Slice(s, m.first, m.last)]

(***************************************************************************)
(* extractKernelVersionString                                              *)
(***************************************************************************)
\* A variant that keeps a trailing separator (the test of line 149 left out).
extractKernelVersionStringKeepsSeparator(l) ==
    LET match == reSearch(l)
    IN  IF ~match.found
        THEN [ok |-> FALSE, value |-> <<>>, exitCode |-> 3]
        ELSE [ok |-> TRUE, value |-> match.group, exitCode |-> 0]

\* ok is FALSE when handleError (..., 3) ends the process; value is the
\* returned versionString otherwise.
extractKernelVersionString(l) ==
    LET match == reSearch(l)
    IN  IF ~match.found
        THEN [ok |-> FALSE, value |-> <<>>, exitCode |-> 3]
        ELSE LET g == match.group
                 lastChar == g[Len(g)]
             IN  IF ~(IsDigit(lastChar) \/ IsAlpha(lastChar))
                 THEN [ok |-> TRUE, value |-> Slice(g, 1, Len(g) - 1),
                       exitCode |-> 0]
                 ELSE [ok |-> TRUE, value |-> g, exitCode |-> 0]

(***************************************************************************)
(* pkg_resources.parse_version: packaging's Version for a PEP 440 string,  *)
(* its LegacyVersion for any other.  The tokens of this model hold digits, *)
(* '.', '-' and letters; the model covers the tokens that hold no letter   *)
(* and the tokens that hold a letter no PEP 440 word is spelled with, so   *)
(* of the pattern of Version only the release and the "-N" post release    *)
(* can match, and a token with a letter is always a LegacyVersion.         *)
(***************************************************************************)
\* The characters in the order of their code points, for str < str.
CharOrder ==
    <<"*", "-", ".">> \o DigitChars \o <<"@">> \o UpperChars \o <<"_">>
        \o LowerChars

Ord(c) == CHOOSE i \in DOMAIN CharOrder : CharOrder[i] = c

\* The letters of a, b, c, rc, alpha, beta, pre, preview, post, rev, r, dev, v
Pep440Letters ==
    {"a", "b", "c", "r", "l", "p", "h", "e", "t", "w", "i", "v", "o", "s", "d"}

\* str.lower () of one character
LowerOf(c) ==
    IF c \in Range(UpperChars)
    THEN LowerChars[CHOOSE i \in DOMAIN UpperChars : UpperChars[i] = c]
    ELSE c

\* str.lower ()
ToLower(s) == [i \in DOMAIN s |-> LowerOf(s[i])]

\* The tokens the model of parse_version covers.
InParseDomain(s) ==
    \/ \A i \in DOMAIN s : IsDigit(s[i]) \/ s[i] \in {".", "-"}
    \/ \E i \in DOMAIN s : IsAlpha(s[i]) /\ LowerOf(s[i]) \notin Pep440Letters

RECURSIVE SplitFrom(_, _, _, _)
\* str.split (sep): the pieces of s between the occurrences of sep, from
\* position i on, cur being the piece read so far.
SplitFrom(s, sep, i, cur) ==
    IF i > Len(s)
    THEN <<cur>>
    ELSE IF s[i] = sep
         THEN <<cur>> \o SplitFrom(s, sep, i + 1, <<>>)
         ELSE SplitFrom(s, sep, i + 1, Append(cur, s[i]))

Split(s, sep) == SplitFrom(s, sep, 1, <<>>)

\* [0-9]+
IsNumber(s) == Len(s) >= 1 /\ \A i \in DOMAIN s : IsDigit(s[i])

RECURSIVE ToInt(_)
\* int (s) of a string of digits
ToInt(s) ==
    IF Len(s) = 0
    THEN 0
    ELSE 10 * ToInt(SubSeq(s, 1, Len(s) - 1))
         + (CHOOSE d \in 0..9 : DigitChars[d + 1] = s[Len(s)])

\* [0-9]+(?:\.[0-9]+)*
IsRelease(s) ==
    LET segs == Split(s, ".") IN \A i \in DOMAIN segs : IsNumber(segs[i])

\* Version._regex on a token: the release, then the post release "-N".
MatchesVersion(s) ==
    LET parts == Split(s, "-")
    IN  \/ Len(parts) = 1 /\ IsRelease(parts[1])
        \/ Len(parts) = 2 /\ IsRelease(parts[1]) /\ IsNumber(parts[2])

RECURSIVE DropTrailingZeros(_)
\* _cmpkey's release with its trailing zeros removed
DropTrailingZeros(r) ==
    IF Len(r) > 0 /\ r[Len(r)] = 0
    THEN DropTrailingZeros(SubSeq(r, 1, Len(r) - 1))
    ELSE r

\* Version (s)._key: the epoch 0, the release and the post release (-1 for
\* NegativeInfinity, no post release); pre, dev and local are Infinity,
\* Infinity and NegativeInfinity for every token of the model.
VersionKey(s) ==
    LET parts == Split(s, "-")
        segs == Split(parts[1], ".")
    IN  [epoch |-> 0,
         release |-> DropTrailingZeros([i \in DOMAIN segs |-> ToInt(segs[i])]),
         post |-> IF Len(parts) = 2 THEN ToInt(parts[2]) ELSE -1,
         parts |-> <<>>]

\* Which alternative of _legacy_version_component_re a character starts:
\* \d+, [a-z]+, \. or -; any other character is text between two matches.
ComponentKind(c) ==
    IF IsDigit(c) THEN "digits"
    ELSE IF c \in Range(LowerChars) THEN "letters"
    ELSE IF c = "." THEN "dot"
    ELSE IF c = "-" THEN "dash"
    ELSE "other"

RECURSIVE ComponentEnd(_, _, _)
\* The last position of the component of kind k that holds position i.
ComponentEnd(s, i, k) ==
    IF k \in {"dot", "dash"}
    THEN i
    ELSE IF i + 1 <= Len(s) /\ ComponentKind(s[i + 1]) = k
         THEN ComponentEnd(s, i + 1, k)
         ELSE i

RECURSIVE Components(_, _)
\* _legacy_version_component_re.split (s) without its empty strings
Components(s, i) ==
    IF i > Len(s)
    THEN <<>>
    ELSE LET e == ComponentEnd(s, i, ComponentKind(s[i]))
         IN  <<SubSeq(s, i, e)>> \o Components(s, e + 1)

\* _legacy_version_replacement_map.get (part, part)
Replacement(part) ==
    IF part = <<"p", "r", "e">> THEN <<"c">>
    ELSE IF part = <<"p", "r", "e", "v", "i", "e", "w">> THEN <<"c">>
    ELSE IF part = <<"-">> THEN <<"f", "i", "n", "a", "l", "-">>
    ELSE IF part = <<"r", "c">> THEN <<"c">>
    ELSE IF part = <<"d", "e", "v">> THEN <<"@">>
    ELSE part

RECURSIVE Zfill8(_)
\* str.zfill (8)
Zfill8(s) == IF Len(s) >= 8 THEN s ELSE Zfill8(<<"0">> \o s)

StarFinal == <<"*", "f", "i", "n", "a", "l">>

StarFinalDash == <<"*", "f", "i", "n", "a", "l", "-">>

EightZeros == <<"0", "0", "0", "0", "0", "0", "0", "0">>

RECURSIVE PartsOf(_, _)
\* _parse_version_parts without its last "*final"
PartsOf(comps, i) ==
    IF i > Len(comps)
    THEN <<>>
    ELSE LET part == Replacement(comps[i])
         IN  IF part = <<".">>
             THEN PartsOf(comps, i + 1)
             ELSE IF IsDigit(part[1])
                  THEN <<Zfill8(part)>> \o PartsOf(comps, i + 1)
                  ELSE <<<<"*">> \o part>> \o PartsOf(comps, i + 1)

\* _parse_version_parts (s)
ParseVersionParts(s) == PartsOf(Components(s, 1), 1) \o <<StarFinal>>

RECURSIVE StrCmp(_, _)
\* -1, 0 or 1 as string a is less than, equal to or greater than string b
StrCmp(a, b) ==
    IF Len(a) = 0 /\ Len(b) = 0 THEN 0
    ELSE IF Len(a) = 0 THEN -1
    ELSE IF Len(b) = 0 THEN 1
    ELSE IF Ord(a[1]) < Ord(b[1]) THEN -1
    ELSE IF Ord(a[1]) > Ord(b[1]) THEN 1
    ELSE StrCmp(Tail(a), Tail(b))

RECURSIVE PopWhile(_, _)
\* while parts and parts [-1] == x: parts.pop ()
PopWhile(parts, x) ==
    IF Len(parts) > 0 /\ parts[Len(parts)] = x
    THEN PopWhile(SubSeq(parts, 1, Len(parts) - 1), x)
    ELSE parts

RECURSIVE LegacyParts(_, _, _)
\* The loop of _legacy_cmpkey over the parts from position i on
LegacyParts(all, i, parts) ==
    IF i > Len(all)
    THEN parts
    ELSE LET part == all[i]
             afterDash == IF part[1] = "*" /\ StrCmp(part, StarFinal) < 0
                          THEN PopWhile(parts, StarFinalDash)
                          ELSE parts
             afterZeros == IF part[1] = "*"
                           THEN PopWhile(afterDash, EightZeros)
                           ELSE parts
         IN  LegacyParts(all, i + 1, Append(afterZeros, part))

\* LegacyVersion (s)._key
LegacyKey(s) ==
    [epoch |-> -1,
     release |-> <<>>,
     post |-> -1,
     parts |-> LegacyParts(ParseVersionParts(ToLower(s)), 1, <<>>)]

\* pkg_resources.parse_version (s), as the key the comparisons use
parse_version(s) == IF MatchesVersion(s) THEN VersionKey(s) ELSE LegacyKey(s)

RECURSIVE IntTupleCmp(_, _)
\* -1, 0 or 1 as the tuple of integers a is <, == or > the tuple b
IntTupleCmp(a, b) ==
    IF Len(a) = 0 /\ Len(b) = 0 THEN 0
    ELSE IF Len(a) = 0 THEN -1
    ELSE IF Len(b) = 0 THEN 1
    ELSE IF a[1] < b[1] THEN -1
    ELSE IF a[1] > b[1] THEN 1
    ELSE IntTupleCmp(Tail(a), Tail(b))

RECURSIVE StrTupleCmp(_, _)
\* -1, 0 or 1 as the tuple of strings a is <, == or > the tuple b
StrTupleCmp(a, b) ==
    IF Len(a) = 0 /\ Len(b) = 0 THEN 0
    ELSE IF Len(a) = 0 THEN -1
    ELSE IF Len(b) = 0 THEN 1
    ELSE IF StrCmp(a[1], b[1]) # 0 THEN StrCmp(a[1], b[1])
    ELSE StrTupleCmp(Tail(a), Tail(b))

\* -1, 0 or 1 as the key k1 is <, == or > the key k2 (tuple comparison: the
\* epoch first, then the rest of the key)
KeyCmp(k1, k2) ==
    IF k1.epoch < k2.epoch THEN -1
    ELSE IF k1.epoch > k2.epoch THEN 1
    ELSE IF k1.epoch = -1 THEN StrTupleCmp(k1.parts, k2.parts)
    ELSE IF IntTupleCmp(k1.release, k2.release) # 0
         THEN IntTupleCmp(k1.release, k2.release)
    ELSE IF k1.post < k2.post THEN -1
    ELSE IF k1.post > k2.post THEN 1
    ELSE 0

(***************************************************************************)
(* compareKernels                                                          *)
(***************************************************************************)
compareKernels(k1, k2) ==
    LET kernel1Version == parse_version(k1)
        kernel2Version == parse_version(k2)
    IN  IF KeyCmp(kernel1Version, kernel2Version) = 1 THEN 1
        ELSE IF KeyCmp(kernel1Version, kernel2Version) = -1 THEN -1
        ELSE 0

(***************************************************************************)
(* The processes the script runs.  A process is what the host makes of a   *)
(* command: whether it could be launched, its exit status and the bytes of *)
(* its standard output.  A byte is the character it encodes in utf-8, or   *)
(* InvalidByte, a byte no utf-8 text holds.                                *)
(***************************************************************************)
InvalidByte == "0xFF"

NotLaunched == [launched |-> FALSE, status |-> 0, stdout |-> <<>>]

\* The exit statuses of a launched process the model draws from.
LaunchedStatuses == {0, 1}

\* The processes of a command run for its exit status.
StatusProcs ==
    {NotLaunched}
        \cup {[launched |-> TRUE, status |-> s, stdout |-> <<>>] :
                s \in LaunchedStatuses}

\* The processes of a command run for its output, the output drawn from outs.
OutputProcs(outs) ==
    {NotLaunched}
        \cup {[launched |-> TRUE, status |-> s, stdout |-> o] :
                s \in LaunchedStatuses, o \in outs}

\* bytes.decode ('utf-8') succeeds
Decodable(bytes) == \A i \in DOMAIN bytes : bytes[i] # InvalidByte

\* executeCommandWithOutput: subprocess.check_output raises OSError when the
\* command cannot be launched (re-raised to the caller) and
\* CalledProcessError, which nothing catches, when it exits non-zero.
executeCommandWithOutput(proc) ==
    IF ~proc.launched
    THEN [kind |-> "raise", exc |-> "OSError", text |-> <<>>]
    ELSE IF proc.status # 0
         THEN [kind |-> "raise", exc |-> "CalledProcessError", text |-> <<>>]
         ELSE IF ~Decodable(proc.stdout)
              THEN [kind |-> "raise", exc |-> "UnicodeDecodeError",
                    text |-> <<>>]
              ELSE [kind |-> "return", exc |-> "none", text |-> proc.stdout]

\* executeCommandWithExitStatus: the exit status, 127 when the command
\* cannot be launched.
executeCommandWithExitStatus(proc) ==
    IF ~proc.launched THEN 127 ELSE proc.status

(***************************************************************************)
(* getPackageManager, getInstalledKernels, getNewKernels, signKernel       *)
(***************************************************************************)
\* A variant that probes dpkg before rpm.
PackageManagersDpkgFirst == <<"dpkg", "rpm", "pacman">>

\* The package managers in the order getPackageManager probes them.
PackageManagers == <<"rpm", "dpkg", "pacman">>

\* The command getInstalledKernels runs for a package manager.
ListingCommand(pm) ==
    IF pm = "rpm" THEN <<"rpm", "-qa", "kernel">>
    ELSE IF pm = "dpkg" THEN <<"dpkg", "--list", "|", "grep", "linux-image">>
    ELSE <<"pacman", "-Q", "|", "grep", "linux">>

RECURSIVE RStrip(_)
\* str.rstrip ()
RStrip(s) ==
    IF Len(s) > 0 /\ IsSpace(s[Len(s)])
    THEN RStrip(SubSeq(s, 1, Len(s) - 1))
    ELSE s

\* output.rstrip ().split ('\n')
OutputLines(output) == Split(RStrip(output), "\n")

RECURSIVE ExtractFrom(_, _, _)
\* The loop of getInstalledKernels over outputLines from position i on:
\* the first line without a version ends the process.
ExtractFrom(lines, i, kernelVersions) ==
    IF i > Len(lines)
    THEN [ok |-> TRUE, value |-> kernelVersions, exitCode |-> 0]
    ELSE LET r == extractKernelVersionString(lines[i])
         IN  IF ~r.ok
             THEN [ok |-> FALSE, value |-> <<>>, exitCode |-> r.exitCode]
             ELSE ExtractFrom(lines, i + 1, Append(kernelVersions, r.value))

RECURSIVE ExtractFromSkipping(_, _, _)
ExtractFromSkipping(lines, i, kernelVersions) ==
    IF i > Len(lines)
    THEN [ok |-> TRUE, value |-> kernelVersions, exitCode |-> 0]
    ELSE LET r == extractKernelVersionString(lines[i])
         IN  IF ~r.ok
             THEN ExtractFromSkipping(lines, i + 1, kernelVersions)
             ELSE ExtractFromSkipping(lines, i + 1,
                                      Append(kernelVersions, r.value))

\* A variant that leaves out the lines without a version.
ExtractAllSkipping(lines) == ExtractFromSkipping(lines, 1, <<>>)

\* kernelVersions of getInstalledKernels for outputLines
ExtractAll(lines) == ExtractFrom(lines, 1, <<>>)

\* A variant that keeps the kernels equal to the current one too.
IsNewerOrEqual(installedKernel, current) ==
    compareKernels(installedKernel, current) # -1

\* The test of getNewKernels
IsNewer(installedKernel, current) ==
    compareKernels(installedKernel, current) = 1

RECURSIVE NewFrom(_, _, _, _)
\* The loop of getNewKernels over installedKernels from position i on
NewFrom(current, installed, i, new) ==
    IF i > Len(installed)
    THEN new
    ELSE IF IsNewer(installed[i], current)
         THEN NewFrom(current, installed, i + 1, Append(new, installed[i]))
         ELSE NewFrom(current, installed, i + 1, new)

getNewKernels(current, installed) == NewFrom(current, installed, 1, <<>>)

\* A variant with two module names exchanged.
MODULE_NAMES_Exchanged ==
    <<"nvidia.ko", "nvidia-drm.ko", "nvidia-modeset.ko", "nvidia-uvm.ko">>

MODULE_NAMES ==
    <<"nvidia-drm.ko", "nvidia.ko", "nvidia-modeset.ko", "nvidia-uvm.ko">>

SIGN_BINARY_PATH(kernel) == <<"/usr/src/kernels/", kernel, "/scripts/sign-file">>

MODULES_PATH(kernel) == <<"/usr/lib/modules/", kernel, "/extra/nvidia/">>

\* The command signKernel runs for one module of a kernel.
SignCommand(kernel, module, privateKeyPath, publicKeyPath) ==
    <<SIGN_BINARY_PATH(kernel), "sha256", privateKeyPath, publicKeyPath,
      Append(MODULES_PATH(kernel), module)>>

\* A variant that takes only 127 for a failure.
SigningFailedOnlyUnlaunched(status) == status = 127

\* The test of signKernel on the exit status of the signing binary
SigningFailed(status) == status # 0

(***************************************************************************)
(* Values of a run that has not happened.                                  *)
(***************************************************************************)
NotExited == -1

NoProc == [argv |-> <<>>, launched |-> FALSE, status |-> 0, stdout |-> <<>>]

NoResult == [kind |-> "none", exc |-> "none", text |-> <<>>]

NoVersion == [ok |-> FALSE, value |-> <<>>, exitCode |-> 0]

NoCmp == [c12 |-> 0, c21 |-> 0, c11 |-> 0, c23 |-> 0, c13 |-> 0]

MainIdle ==
    /\ exitStatus = NotExited
    /\ failure = "none"
    /\ packageManager = "none"
    /\ currentKernel = <<>>
    /\ installedKernels = <<>>
    /\ newKernels = <<>>
    /\ kernelIdx = 1
    /\ moduleIdx = 1
    /\ log = <<>>
    /\ lastProc = NoProc
    /\ lastResult = NoResult

ExtractIdle ==
    /\ line = <<>>
    /\ versionString = NoVersion

CompareIdle ==
    /\ kernel1 = <<>>
    /\ kernel2 = <<>>
    /\ kernel3 = <<>>
    /\ cmp = NoCmp

(***************************************************************************)
(* The extraction on its own: every line over LineChars up to MaxLineLen,  *)
(* and the lines the documentation gives.                                  *)
(***************************************************************************)
LineChars == {"4", "7", ".", "-", "x", "K", "_"}

RECURSIVE StringsUpTo(_, _)
\* Every string over the characters C of length at most n.
StringsUpTo(C, n) ==
    IF n = 0
    THEN {<<>>}
    ELSE LET shorter == StringsUpTo(C, n - 1)
         IN  shorter \cup {Append(s, c) : s \in shorter, c \in C}

PackageLine ==
    <<"l", "i", "n", "u", "x", "-", "i", "m", "a", "g", "e", "-", "4", ".", "7",
      ".", "2", "-", "2", "0", "1", ".", "x", "8", "6", "_", "6", "4">>

ExampleLines == {PackageLine}

InitExtract ==
    /\ pc = "extract"
    /\ line \in StringsUpTo(LineChars, MaxLineLen) \cup ExampleLines
    /\ versionString = NoVersion
    /\ MainIdle
    /\ CompareIdle

\* One call of extractKernelVersionString (line); a failed search ends the
\* process through handleError (..., 3).
ExtractStep ==
    /\ pc = "extract"
    /\ LET r == extractKernelVersionString(line)
       IN  /\ versionString' = r
           /\ pc' = IF r.ok THEN "extracted" ELSE "done"
           /\ exitStatus' = IF r.ok THEN exitStatus ELSE r.exitCode
           /\ failure' = IF r.ok THEN failure ELSE "VersionParseError"
    /\ UNCHANGED <<packageManager, currentKernel, installedKernels, newKernels,
                   kernelIdx, moduleIdx, log, lastProc, lastResult, line>>
    /\ UNCHANGED compareVars

SpecExtract == InitExtract /\ [][ExtractStep]_vars

(***************************************************************************)
(* The comparison on its own: every token the extraction returns for a     *)
(* line over TokenChars, and the tokens the documentation gives.           *)
(***************************************************************************)
TokenChars == {"0", "1", ".", "-", "x"}

\* The tokens extracted from the lines over TokenChars up to n characters.
TokensUpTo(n) ==
    {extractKernelVersionString(l).value :
        l \in {m \in StringsUpTo(TokenChars, n) :
                 extractKernelVersionString(m).ok}}

K455 == <<"4", ".", "5", ".", "5">>

K472 == <<"4", ".", "7", ".", "2">>

K472d201 == <<"4", ".", "7", ".", "2", "-", "2", "0", "1">>

K4720d201 == <<"4", ".", "7", ".", "2", ".", "0", "-", "2", "0", "1">>

K472d201x86 == <<"4", ".", "7", ".", "2", "-", "2", "0", "1", ".", "x", "8", "6">>

K480d1 == <<"4", ".", "8", ".", "0", "-", "1">>

K599 == <<"5", ".", "9", ".", "9">>

K5100 == <<"5", ".", "1", "0", ".", "0">>

K5121 == <<"5", ".", "1", "2", ".", "1">>

ExampleTokens ==
    {K455, K472, K472d201, K4720d201, K472d201x86, K480d1, K599, K5100, K5121}

InitCompare ==
    /\ pc = "compare"
    /\ kernel1 \in TokensUpTo(MaxTokenLineLen) \cup ExampleTokens
    /\ kernel2 \in TokensUpTo(MaxTokenLineLen) \cup ExampleTokens
    /\ kernel3 \in TokensUpTo(MaxTokenLineLen - 1) \cup ExampleTokens
    /\ InParseDomain(kernel1) /\ InParseDomain(kernel2) /\ InParseDomain(kernel3)
    /\ cmp = NoCmp
    /\ MainIdle
    /\ ExtractIdle

\* compareKernels on the pairs of the three tokens
CompareStep ==
    /\ pc = "compare"
    /\ cmp' = [c12 |-> compareKernels(kernel1, kernel2),
               c21 |-> compareKernels(kernel2, kernel1),
               c11 |-> compareKernels(kernel1, kernel1),
               c23 |-> compareKernels(kernel2, kernel3),
               c13 |-> compareKernels(kernel1, kernel3)]
    /\ pc' = "compared"
    /\ UNCHANGED <<kernel1, kernel2, kernel3>>
    /\ UNCHANGED mainVars
    /\ UNCHANGED extractVars

SpecCompare == InitCompare /\ [][CompareStep]_vars

(***************************************************************************)
(* main ()                                                                 *)
(***************************************************************************)
\* What the host prints for uname -r.
UnameOutputs ==
    {<<"5", ".", "1", "0", ".", "0", "\n">>,
     <<"4", ".", "7", ".", "2", "-", "2", "0", "1", ".", "x", "8", "6", "_",
       "6", "4", "\n">>,
     <<"\n">>}

\* The lines a package listing is made of.
ListingLines ==
    {<<"k", "e", "r", "n", "e", "l", "-", "5", ".", "1", "0", ".", "0">>,
     <<"k", "e", "r", "n", "e", "l", "-", "5", ".", "1", "2", ".", "1">>,
     <<"k", "e", "r", "n", "e", "l", "-", "5", ".", "9", ".", "9">>,
     <<"k", "e", "r", "n", "e", "l", "-", "4", ".", "7", ".", "2", "-", "2",
       "0", "1", ".", "x", "8", "6", "_", "6", "4">>,
     <<"k", "e", "r", "n", "e", "l">>,
     <<>>}

RECURSIVE ListingsUpTo(_)
\* The outputs of at most n lines of ListingLines, each ended by a newline.
ListingsUpTo(n) ==
    IF n = 0
    THEN {<<>>}
    ELSE LET shorter == ListingsUpTo(n - 1)
         IN  shorter \cup {o \o l \o <<"\n">> : o \in shorter, l \in ListingLines}

\* What the host prints for the listing command.
ListingOutputs ==
    ListingsUpTo(MaxListingLines) \cup {<<" ", "\n">>, <<InvalidByte>>}

\* The run after parser.parse_args () has read the two key files from the
\* command line: getPackageManager () is the next call of main ().
Init ==
    /\ pc = "probe_1"
    /\ MainIdle
    /\ ExtractIdle
    /\ CompareIdle

\* handleError (errorMessage, exitCode): sys.exit (exitCode)
handleError(kind, exitCode) ==
    /\ exitStatus' = exitCode
    /\ failure' = kind
    /\ pc' = "done"

\* An exception nothing catches: the interpreter prints it and exits with 1.
Uncaught(exc) ==
    /\ exitStatus' = 1
    /\ failure' = exc
    /\ pc' = "done"

\* The entry of the log for a command and its process.
LogEntry(kind, argv, proc, status) ==
    [kind |-> kind, argv |-> argv, launched |-> proc.launched,
     status |-> status]

\* The i-th branch of getPackageManager: the probe of one package manager.
Probe(i) ==
    /\ pc = <<"probe_1", "probe_2", "probe_3">>[i]
    /\ \E proc \in StatusProcs :
         LET status == executeCommandWithExitStatus(proc)
             argv == <<PackageManagers[i], "--version">>
         IN  /\ log' = Append(log, LogEntry("probe", argv, proc, status))
             /\ IF status = 0
                THEN /\ packageManager' = PackageManagers[i]
                     /\ pc' = "current"
                     /\ UNCHANGED <<exitStatus, failure>>
                ELSE IF i < 3
                     THEN /\ pc' = <<"probe_2", "probe_3">>[i]
                          /\ UNCHANGED <<packageManager, exitStatus, failure>>
                     ELSE /\ handleError("PackageManagerNotFound", 1)
                          /\ UNCHANGED packageManager
    /\ UNCHANGED <<currentKernel, installedKernels, newKernels, kernelIdx,
                   moduleIdx, lastProc, lastResult>>
    /\ UNCHANGED extractVars
    /\ UNCHANGED compareVars

ProbeRpm == Probe(1)

ProbeDpkg == Probe(2)

ProbePacman == Probe(3)

\* getCurrentKernel (): uname -r, then the extraction on its whole output
\* (the result of unameOutput.rstrip () is dropped).
GetCurrentKernel ==
    /\ pc = "current"
    /\ \E proc \in OutputProcs(UnameOutputs) :
         LET argv == <<"uname", "-r">>
             r == executeCommandWithOutput(proc)
             v == extractKernelVersionString(r.text)
         IN  /\ log' = Append(log, LogEntry("output", argv, proc, proc.status))
             /\ lastProc' = [argv |-> argv, launched |-> proc.launched,
                             status |-> proc.status, stdout |-> proc.stdout]
             /\ lastResult' = r
             /\ IF r.kind = "raise"
                THEN /\ Uncaught(r.exc)
                     /\ UNCHANGED currentKernel
                ELSE IF ~v.ok
                     THEN /\ handleError("VersionParseError", v.exitCode)
                          /\ UNCHANGED currentKernel
                     ELSE /\ currentKernel' = v.value
                          /\ pc' = "installed"
                          /\ UNCHANGED <<exitStatus, failure>>
    /\ UNCHANGED <<packageManager, installedKernels, newKernels, kernelIdx,
                   moduleIdx>>
    /\ UNCHANGED extractVars
    /\ UNCHANGED compareVars

\* getInstalledKernels (packageManager): the listing command, then the
\* extraction on every line of its output.
GetInstalledKernels ==
    /\ pc = "installed"
    /\ \E proc \in OutputProcs(ListingOutputs) :
         LET argv == ListingCommand(packageManager)
             r == executeCommandWithOutput(proc)
             vs == ExtractAll(OutputLines(r.text))
         IN  /\ log' = Append(log, LogEntry("output", argv, proc, proc.status))
             /\ lastProc' = [argv |-> argv, launched |-> proc.launched,
                             status |-> proc.status, stdout |-> proc.stdout]
             /\ lastResult' = r
             /\ IF r.kind = "raise"
                THEN /\ Uncaught(r.exc)
                     /\ UNCHANGED installedKernels
                ELSE IF ~vs.ok
                     THEN /\ handleError("VersionParseError", vs.exitCode)
                          /\ UNCHANGED installedKernels
                     ELSE /\ installedKernels' = vs.value
                          /\ pc' = "new"
                          /\ UNCHANGED <<exitStatus, failure>>
    /\ UNCHANGED <<packageManager, currentKernel, newKernels, kernelIdx,
                   moduleIdx>>
    /\ UNCHANGED extractVars
    /\ UNCHANGED compareVars

\* newKernels = getNewKernels (currentKernel, installedKernels)
GetNewKernels ==
    /\ pc = "new"
    /\ newKernels' = getNewKernels(currentKernel, installedKernels)
    /\ pc' = "sign"
    /\ UNCHANGED <<exitStatus, failure, packageManager, currentKernel,
                   installedKernels, kernelIdx, moduleIdx, log, lastProc,
                   lastResult>>
    /\ UNCHANGED extractVars
    /\ UNCHANGED compareVars

\* One turn of the loop of signKernel, inside the loop of signNewKernels:
\* the signing binary on one module of one new kernel.
SignModule ==
    /\ pc = "sign"
    /\ kernelIdx <= Len(newKernels)
    /\ \E proc \in StatusProcs :
         LET kernel == newKernels[kernelIdx]
             module == MODULE_NAMES[moduleIdx]
             argv == SignCommand(kernel, module, "privateKeyFile",
                                 "publicKeyFile")
             status == executeCommandWithExitStatus(proc)
         IN  /\ log' = Append(log, LogEntry("sign", argv, proc, status))
             /\ IF SigningFailed(status)
                THEN /\ handleError("SigningError", 2)
                     /\ UNCHANGED <<kernelIdx, moduleIdx>>
                ELSE /\ IF moduleIdx < Len(MODULE_NAMES)
                        THEN /\ moduleIdx' = moduleIdx + 1
                             /\ UNCHANGED kernelIdx
                        ELSE /\ moduleIdx' = 1
                             /\ kernelIdx' = kernelIdx + 1
                     /\ UNCHANGED <<pc, exitStatus, failure>>
    /\ UNCHANGED <<packageManager, currentKernel, installedKernels, newKernels,
                   lastProc, lastResult>>
    /\ UNCHANGED extractVars
    /\ UNCHANGED compareVars

\* main () returns after signNewKernels: the process exits with 0.
Finish ==
    /\ pc = "sign"
    /\ kernelIdx > Len(newKernels)
    /\ exitStatus' = 0
    /\ pc' = "done"
    /\ UNCHANGED <<failure, packageManager, currentKernel, installedKernels,
                   newKernels, kernelIdx, moduleIdx, log, lastProc, lastResult>>
    /\ UNCHANGED extractVars
    /\ UNCHANGED compareVars

Next ==
    \/ ProbeRpm
    \/ ProbeDpkg
    \/ ProbePacman
    \/ GetCurrentKernel
    \/ GetInstalledKernels
    \/ GetNewKernels
    \/ SignModule
    \/ Finish

Spec == Init /\ [][Next]_vars

(***************************************************************************)
(* getNewKernels on its own: a current kernel and up to MaxInstalled       *)
(* installed kernels drawn from SelectTokens.                              *)
(***************************************************************************)
SelectTokens == {K455, K472d201, K4720d201, K472d201x86, K480d1, K5100}

RECURSIVE SeqsUpTo(_, _)
\* Every sequence over the set S of length at most n.
SeqsUpTo(S, n) ==
    IF n = 0
    THEN {<<>>}
    ELSE LET shorter == SeqsUpTo(S, n - 1)
         IN  shorter \cup {Append(s, x) : s \in shorter, x \in S}

InitSelect ==
    /\ pc = "new"
    /\ currentKernel \in SelectTokens
    /\ installedKernels \in SeqsUpTo(SelectTokens, MaxInstalled)
    /\ \A k \in SelectTokens : InParseDomain(k)
    /\ exitStatus = NotExited
    /\ failure = "none"
    /\ packageManager = "rpm"
    /\ newKernels = <<>>
    /\ kernelIdx = 1
    /\ moduleIdx = 1
    /\ log = <<>>
    /\ lastProc = NoProc
    /\ lastResult = NoResult
    /\ ExtractIdle
    /\ CompareIdle

SpecSelect == InitSelect /\ [][GetNewKernels]_vars

(***************************************************************************)
(* The properties.                                                         *)
(***************************************************************************)
IsSignEntry(e) == e.kind = "sign"

IsProbeEntry(e) == e.kind = "probe"

\* The signing invocations so far, in order.
SignLog == SelectSeq(log, IsSignEntry)

\* The kernel and the module of a signing invocation: the kernel of the path
\* of the binary, and the kernel and the file of the path of the module.
SignedPair(e) == <<e.argv[1][2], e.argv[5][2], e.argv[5][4]>>

SignedPairs == [i \in DOMAIN SignLog |-> SignedPair(SignLog[i])]

\* The four invocations of one kernel, in the fixed order.
FourModules(k) ==
    <<<<k, k, "nvidia-drm.ko">>, <<k, k, "nvidia.ko">>,
      <<k, k, "nvidia-modeset.ko">>, <<k, k, "nvidia-uvm.ko">>>>

RECURSIVE ExpectedPairs(_, _)
\* Four invocations for each installed kernel greater than the current one,
\* in listing order.
ExpectedPairs(current, installed) ==
    IF installed = <<>>
    THEN <<>>
    ELSE (IF compareKernels(Head(installed), current) = 1
          THEN FourModules(Head(installed))
          ELSE <<>>) \o ExpectedPairs(current, Tail(installed))

\* C1: a run that ends with exit status 0 has invoked the signing binary
\* exactly four times, in the fixed module order, for each installed kernel
\* greater than the current one, in listing order, and for no other kernel;
\* with current kernel 5.10.0, installed kernels [5.10.0, 5.12.1] and a
\* signing binary that always exits 0 there are exactly four invocations,
\* all for 5.12.1, and the exit status is 0.
C1_SigningSequenceOnSuccess ==
    /\ (pc = "done" /\ exitStatus = 0)
         => SignedPairs = ExpectedPairs(currentKernel, installedKernels)
    /\ (/\ pc = "done"
        /\ currentKernel = K5100
        /\ installedKernels = <<K5100, K5121>>
        /\ \A i \in DOMAIN SignLog :
             SignLog[i].launched /\ SignLog[i].status = 0)
         => /\ exitStatus = 0
            /\ SignedPairs = FourModules(K5121)

C1_Witness ==
    /\ pc = "done"
    /\ exitStatus = 0
    /\ currentKernel = K5100
    /\ installedKernels = <<K5100, K5121>>
    /\ Len(SignLog) = 4

\* A signing invocation has returned a non-zero status.
SigningHasFailed == \E i \in DOMAIN log : IsSignEntry(log[i]) /\ log[i].status # 0

\* C2: once a signing invocation has returned a non-zero status (127 for a
\* binary that cannot be launched), the process has ended with exit status
\* 2, that invocation is the last command of the run, and no command is
\* ever run after it: the log, with the modules signed before, stays as
\* it is.
C2_AbortOnSigningFailure ==
    /\ [](SigningHasFailed
            => /\ pc = "done"
               /\ exitStatus = 2
               /\ \A i \in DOMAIN log :
                    (IsSignEntry(log[i]) /\ log[i].status # 0) => i = Len(log))
    /\ [](\A i \in DOMAIN log :
            (IsSignEntry(log[i]) /\ ~log[i].launched) => log[i].status = 127)
    /\ [][SigningHasFailed => log' = log]_vars
    /\ [][Len(log') >= Len(log) /\ SubSeq(log', 1, Len(log)) = log]_vars

C2_Witness ==
    /\ pc = "done"
    /\ exitStatus = 2
    /\ Len(newKernels) = 2
    /\ Len(SignLog) = 6
    /\ SignLog[6].status = 1
    /\ \A i \in 1..5 : SignLog[i].status = 0

ProbeLog == SelectSeq(log, IsProbeEntry)

ProbeOrder == <<"rpm", "dpkg", "pacman">>

\* C4: the probes are rpm, dpkg, pacman in this order, each with --version;
\* a manager is probed only after every earlier probe returned non-zero
\* (127 when the command cannot be launched); the manager selected is the
\* first whose probe returned 0; when all three return non-zero the run ends
\* with exit status 1 and no other command has been run.
C4_DetectionOrder ==
    /\ Len(ProbeLog) <= 3
    /\ \A i \in DOMAIN ProbeLog :
         /\ ProbeLog[i].argv = <<ProbeOrder[i], "--version">>
         /\ log[i] = ProbeLog[i]
         /\ ~ProbeLog[i].launched => ProbeLog[i].status = 127
         /\ i < Len(ProbeLog) => ProbeLog[i].status # 0
    /\ packageManager # "none"
         => /\ ProbeLog # <<>>
            /\ ProbeLog[Len(ProbeLog)].status = 0
            /\ packageManager = ProbeOrder[Len(ProbeLog)]
    /\ (ProbeLog # <<>> /\ ProbeLog[Len(ProbeLog)].status = 0)
         => packageManager = ProbeOrder[Len(ProbeLog)]
    /\ (Len(ProbeLog) = 3 /\ ProbeLog[3].status # 0)
         => /\ pc = "done"
            /\ exitStatus = 1
            /\ packageManager = "none"
            /\ Len(log) = 3
    /\ pc \in {"current", "installed", "new", "sign"} => packageManager # "none"

C4_Witness ==
    /\ packageManager = "dpkg"
    /\ Len(ProbeLog) = 2
    /\ ProbeLog[1].status = 127
    /\ ProbeLog[2].status = 0
    /\ pc = "installed"

\* Every step of the run succeeded.
AllStepsSucceeded ==
    /\ packageManager # "none"
    /\ currentKernel # <<>>
    /\ Len(installedKernels) >= 1
    /\ SignedPairs = ExpectedPairs(currentKernel, installedKernels)
    /\ ~SigningHasFailed

\* C5: the exit status names the failure: 0 only when every step
\* succeeded, 1 only when no package manager was detected, 2 only when a
\* signing invocation failed, 3 only when no version could be extracted.
C5_ExitStatusNamesTheFailure ==
    pc = "done"
      => /\ exitStatus = 0 => (failure = "none" /\ AllStepsSucceeded)
         /\ exitStatus = 1 => failure = "PackageManagerNotFound"
         /\ exitStatus = 2 => failure = "SigningError"
         /\ exitStatus = 3 => failure = "VersionParseError"

IsVersionChar(c) ==
    c \in Range(DigitChars) \cup {".", "-"} \cup Range(LowerChars)
            \cup Range(UpperChars)

\* The positions where a digit is followed by a digit, dot, dash or letter.
VersionStarts(l) ==
    {i \in 1..(Len(l) - 1) : IsDigit(l[i]) /\ IsVersionChar(l[i + 1])}

\* The first maximal substring of the form of a version.
FirstMaximal(l) ==
    LET i == Min(VersionStarts(l))
        j == Max({e \in (i + 1)..Len(l) :
                    \A k \in i..e : IsVersionChar(l[k])})
    IN  SubSeq(l, i, j)

C8_PackageLineGivesVersionOnly ==
    (pc # "extract" /\ line = PackageLine)
      => /\ versionString.ok
         /\ versionString.value = K472d201

\* The segments of a token between its dots and dashes.
Segments(s) ==
    Split([i \in DOMAIN s |-> IF s[i] = "-" THEN "." ELSE s[i]], ".")

\* The first segment of a token is a number.
LeadsWithNumber(s) == IsNumber(Segments(s)[1])

\* The number a token starts with.
LeadingNumber(s) == ToInt(Segments(s)[1])

\* C9: compareKernels never fails and is a strict total order on the tokens
\* the extraction returns: it is GREATER one way exactly when it is LESS the
\* other way, EQUAL on a token and itself, GREATER is transitive, it gives
\* the three documented results, and it agrees with the numeric comparison
\* of the segments at least where the first segments are numbers that
\* differ.
C9_CompareIsSegmentOrder ==
    pc = "compared"
      => /\ \A f \in DOMAIN cmp : cmp[f] \in {-1, 0, 1}
         /\ cmp.c12 = 1 <=> cmp.c21 = -1
         /\ cmp.c11 = 0
         /\ (cmp.c12 = 1 /\ cmp.c23 = 1) => cmp.c13 = 1
         /\ (kernel1 = K472d201 /\ kernel2 = K455) => cmp.c12 = 1
         /\ (kernel1 = K5100 /\ kernel2 = K599) => cmp.c12 = 1
         /\ (kernel1 = K472 /\ kernel2 = K472) => cmp.c12 = 0
         /\ (LeadsWithNumber(kernel1) /\ LeadsWithNumber(kernel2))
              => /\ LeadingNumber(kernel1) > LeadingNumber(kernel2)
                      => cmp.c12 = 1
                 /\ LeadingNumber(kernel1) < LeadingNumber(kernel2)
                      => cmp.c12 = -1

\* The listing command has been run and its output read.
ListingRead ==
    /\ lastProc.argv # <<>>
    /\ lastProc.argv[1] # "uname"
    /\ lastResult.kind = "return"

\* C10: when the extraction fails for a line of the listing output (the
\* lines of the output without its trailing whitespace, one empty line for
\* an empty or blank output), whatever its position, the run ends with exit
\* status 3, no list of installed kernels is returned and the signing binary
\* is never invoked; and no signing happens before the listing is read.
C10_EnumerationAllOrNothing ==
    /\ ListingRead
         => LET lines == OutputLines(lastResult.text)
            IN  /\ (\E i \in DOMAIN lines : VersionStarts(lines[i]) = {})
                     => /\ pc = "done"
                        /\ exitStatus = 3
                        /\ installedKernels = <<>>
                        /\ newKernels = <<>>
                        /\ SignLog = <<>>
                /\ (\A i \in DOMAIN lastResult.text :
                      IsSpace(lastResult.text[i]))
                     => /\ lines = <<<<>>>>
                        /\ exitStatus = 3
                /\ (\A i \in DOMAIN lines : VersionStarts(lines[i]) # {})
                     => /\ exitStatus # 3
                        /\ Len(installedKernels) = Len(lines)
    /\ SignLog # <<>> => ListingRead

C10_Witness ==
    /\ pc = "done"
    /\ exitStatus = 3
    /\ ListingRead
    /\ lastResult.text =
         <<"k", "e", "r", "n", "e", "l", "-", "5", ".", "1", "0", ".", "0", "\n",
           "k", "e", "r", "n", "e", "l", "\n">>
    /\ SignLog = <<>>

====
